---------------------------- MODULE Spec2Model ----------------------------
(***************************************************************************)
(* A model of generate-gallery.mjs: the recursive walk of ./images, the    *)
(* per-file timestamp fallback chain (EXIF, mtime, filename), the          *)
(* concurrency limiter mapLimit, and the sort and write of gallery.json.   *)
(*                                                                         *)
(* JavaScript strings are sequences of one-character strings, compared by  *)
(* code unit as < and Array.prototype.sort() compare them.  A Date is a    *)
(* record [t, nan, day, ms]: day is the number of days since 1970-01-01    *)
(* (UTC) and ms the millisecond of that day, so that the whole range of a  *)
(* time value (+-8.64e15 ms = +-1e8 days) fits the integers of TLC.        *)
(*                                                                         *)
(* The zone offset of the process is one number for the whole run (no      *)
(* daylight saving change between two dates).  gallery.json is the         *)
(* sequence of its entries, not the text JSON.stringify makes of them.     *)
(* The worker of one file is one step: its awaits (readFile, exifr, stat)  *)
(* touch nothing another worker or mapLimit reads.                         *)
(***************************************************************************)
EXTENDS Integers, Sequences, FiniteSets, TLC

(***************************************************************************)
(* Bounds of the model.                                                    *)
(***************************************************************************)
\* the largest number of image files present under ./images
MaxFiles == 3
\* concurrency limits 1..MaxLimit are tried besides the limit main passes
MaxLimit == 2

(***************************************************************************)
(* Characters and strings.                                                 *)
(***************************************************************************)
\* the characters the model uses, in increasing code-unit order
Alphabet ==
  << " ", "+", "-", ".", "/",
     "0", "1", "2", "3", "4", "5", "6", "7", "8", "9", ":",
     "A", "B", "C", "D", "E", "F", "G", "H", "I", "J", "K", "L", "M",
     "N", "O", "P", "Q", "R", "S", "T", "U", "V", "W", "X", "Y", "Z",
     "_",
     "a", "b", "c", "d", "e", "f", "g", "h", "i", "j", "k", "l", "m",
     "n", "o", "p", "q", "r", "s", "t", "u", "v", "w", "x", "y", "z" >>

Ord(c) == CHOOSE i \in 1..Len(Alphabet) : Alphabet[i] = c

DigitChars == {"0", "1", "2", "3", "4", "5", "6", "7", "8", "9"}
UpperChars == {Alphabet[i] : i \in Ord("A")..Ord("Z")}
LowerChars == {Alphabet[i] : i \in Ord("a")..Ord("z")}
\* the class \w of a JavaScript regular expression
WordChars == DigitChars \cup UpperChars \cup LowerChars \cup {"_"}

DigitVal(c) == Ord(c) - Ord("0")
DigitChar(n) == Alphabet[Ord("0") + n]

\* String.prototype.toLowerCase, one character
LowerChar(c) == IF c \in UpperChars THEN Alphabet[Ord(c) - Ord("A") + Ord("a")] ELSE c
\* an extension compared as it is written
toLowerCase_AsWritten(s) == s

\* String.prototype.toLowerCase, on the characters of the alphabet
toLowerCase(s) == [i \in 1..Len(s) |-> LowerChar(s[i])]

\* a < b on strings: the first differing code unit decides, a proper prefix is smaller
RECURSIVE StrLess(_, _)
StrLess(a, b) ==
  IF b = << >> THEN FALSE
  ELSE IF a = << >> THEN TRUE
  ELSE IF Head(a) = Head(b) THEN StrLess(Tail(a), Tail(b))
  ELSE Ord(Head(a)) < Ord(Head(b))

\* String.prototype.slice(from, to) with 0 <= from <= to, as in slice(0, 19)
Slice(s, from, to) == SubSeq(s, from + 1, IF to < Len(s) THEN to ELSE Len(s))

\* the decimal digits of n >= 0, padded with zeros to at least width characters
RECURSIVE PadNum(_, _)
PadNum(n, width) ==
  IF width <= 1 /\ n < 10 THEN << DigitChar(n) >>
  ELSE Append(PadNum(n \div 10, width - 1), DigitChar(n % 10))

\* the number a string of decimal digits denotes (Number("09") = 9)
RECURSIVE NumOf(_)
NumOf(s) ==
  IF s = << >> THEN 0 ELSE 10 * NumOf(SubSeq(s, 1, Len(s) - 1)) + DigitVal(s[Len(s)])

(***************************************************************************)
(* JavaScript values: undefined, null, a string of the EXIF parser, a Date.*)
(***************************************************************************)
Undefined == [t |-> "undefined", nan |-> FALSE, day |-> 0, ms |-> 0]
Null == [t |-> "null", nan |-> FALSE, day |-> 0, ms |-> 0]
\* a non-empty string, such as a date field exifr could not revive
StringValue == [t |-> "string", nan |-> FALSE, day |-> 0, ms |-> 0]
\* new Date(NaN)
InvalidDate == [t |-> "date", nan |-> TRUE, day |-> 0, ms |-> 0]

MsPerDay == 24 * 60 * 60 * 1000
\* 8.64e15 ms, the largest time value, in days
MaxTimeDays == 100 * 1000 * 1000

\* ToBoolean: undefined, null and NaN are falsy; every object, a Date too, is truthy
Truthy(v) == v.t \in {"string", "date"}

\* TimeClip of the time value day * MsPerDay + ms
TimeClip(day, ms) ==
  IF (day >= -MaxTimeDays /\ day < MaxTimeDays) \/ (day = MaxTimeDays /\ ms = 0)
  THEN [t |-> "date", nan |-> FALSE, day |-> day, ms |-> ms]
  ELSE InvalidDate

\* the Date whose time value is that of d plus delta milliseconds (new Date(d.getTime() + delta))
AddMs(d, delta) ==
  IF d.nan THEN InvalidDate
  ELSE LET total == d.ms + delta
       IN TimeClip(d.day + (total \div MsPerDay), total % MsPerDay)

\* isNaN(+d)
IsNaNDate(d) == d.nan

\* the sign of b - a for two valid dates: 1, 0 or -1
DateDiffSign(b, a) ==
  IF b.day # a.day THEN (IF b.day > a.day THEN 1 ELSE -1)
  ELSE IF b.ms # a.ms THEN (IF b.ms > a.ms THEN 1 ELSE -1)
  ELSE 0

(***************************************************************************)
(* The calendar of ECMAScript (proleptic Gregorian).                       *)
(***************************************************************************)
\* the day number of year-month-day, month in 1..12
DaysFromCivil(year, month, dayOfMonth) ==
  LET y == IF month <= 2 THEN year - 1 ELSE year
      era == y \div 400
      yoe == y - era * 400
      mp == IF month > 2 THEN month - 3 ELSE month + 9
      doy == ((153 * mp + 2) \div 5) + dayOfMonth - 1
      doe == yoe * 365 + (yoe \div 4) - (yoe \div 100) + doy
  IN era * 146097 + doe - 719468

\* year, month (1..12) and day of the month of a day number
CivilFromDays(dayNumber) ==
  LET z == dayNumber + 719468
      era == z \div 146097
      doe == z - era * 146097
      yoe == (doe - (doe \div 1460) + (doe \div 36524) - (doe \div 146096)) \div 365
      doy == doe - (365 * yoe + (yoe \div 4) - (yoe \div 100))
      mp == (5 * doy + 2) \div 153
      d == doy - ((153 * mp + 2) \div 5) + 1
      m == IF mp < 10 THEN mp + 3 ELSE mp - 9
      y == yoe + era * 400
  IN [year |-> IF m <= 2 THEN y + 1 ELSE y, month |-> m, day |-> d]

\* MakeDay(year, month, date) with month counted from 0: months and days roll over
MakeDay(year, month, date) ==
  DaysFromCivil(year + (month \div 12), (month % 12) + 1, 1) + date - 1

\* MakeTime(hour, min, sec, 0)
MakeTime(hour, min, sec) == hour * 3600000 + min * 60000 + sec * 1000

\* new Date(y, mo, d, hh, mm, ss): the local time made of the components, to UTC.
\* tz is getTimezoneOffset(), in minutes, positive west of Greenwich.
NewLocalDate(y, mo, d, hh, mm, ss, tz) ==
  LET yr == IF y >= 0 /\ y <= 99 THEN 1900 + y ELSE y
      time == MakeTime(hh, mm, ss) + tz * 60000
      dayNo == MakeDay(yr, mo, d)
  IN TimeClip(dayNo + (time \div MsPerDay), time % MsPerDay)

\* the local calendar fields of a valid date (getFullYear, getMonth() + 1, getDate, ...)
LocalFields(d, tz) ==
  LET l == AddMs(d, -(tz * 60000))
      c == CivilFromDays(l.day)
  IN [year |-> c.year, month |-> c.month, day |-> c.day,
      hour |-> l.ms \div 3600000, minute |-> (l.ms \div 60000) % 60,
      second |-> (l.ms \div 1000) % 60]

\* Date.prototype.toISOString of a valid date: "YYYY-MM-DDTHH:mm:ss.sssZ", the year
\* as a sign and six digits outside 0..9999
toISOString(d) ==
  LET c == CivilFromDays(d.day)
      yearStr == IF c.year >= 0 /\ c.year <= 9999 THEN PadNum(c.year, 4)
                 ELSE IF c.year < 0 THEN << "-" >> \o PadNum(-c.year, 6)
                 ELSE << "+" >> \o PadNum(c.year, 6)
  IN yearStr \o << "-" >> \o PadNum(c.month, 2) \o << "-" >> \o PadNum(c.day, 2)
       \o << "T" >> \o PadNum(d.ms \div 3600000, 2)
       \o << ":" >> \o PadNum((d.ms \div 60000) % 60, 2)
       \o << ":" >> \o PadNum((d.ms \div 1000) % 60, 2)
       \o << "." >> \o PadNum(d.ms % 1000, 3) \o << "Z" >>

AllDigits(s) == \A i \in 1..Len(s) : s[i] \in DigitChars

\* new Date(string) for the date-time forms of the ECMAScript format that end in Z:
\* [+-YY]YYYY-MM-DDTHH:mm[:ss]Z; anything else here is an Invalid Date
DateParse(s) ==
  LET signed == Len(s) > 0 /\ s[1] \in {"+", "-"}
      yLen == IF signed THEN 7 ELSE 4
      rest == SubSeq(s, yLen + 1, Len(s))
      hasSec == Len(rest) = 16
      shapeOk == /\ Len(s) > yLen
                 /\ AllDigits(SubSeq(s, IF signed THEN 2 ELSE 1, yLen))
                 /\ Len(rest) \in {13, 16}
                 /\ rest[1] = "-" /\ rest[4] = "-" /\ rest[7] = "T" /\ rest[10] = ":"
                 /\ rest[Len(rest)] = "Z"
                 /\ AllDigits(SubSeq(rest, 2, 3)) /\ AllDigits(SubSeq(rest, 5, 6))
                 /\ AllDigits(SubSeq(rest, 8, 9)) /\ AllDigits(SubSeq(rest, 11, 12))
                 /\ (hasSec => rest[13] = ":" /\ AllDigits(SubSeq(rest, 14, 15)))
      yAbs == NumOf(SubSeq(s, IF signed THEN 2 ELSE 1, yLen))
      year == IF signed /\ s[1] = "-" THEN -yAbs ELSE yAbs
      month == NumOf(SubSeq(rest, 2, 3))
      dayOfMonth == NumOf(SubSeq(rest, 5, 6))
      hour == NumOf(SubSeq(rest, 8, 9))
      minute == NumOf(SubSeq(rest, 11, 12))
      second == IF hasSec THEN NumOf(SubSeq(rest, 14, 15)) ELSE 0
      monthLen == DaysFromCivil(IF month = 12 THEN year + 1 ELSE year,
                                IF month = 12 THEN 1 ELSE month + 1, 1)
                    - DaysFromCivil(year, month, 1)
  IN IF ~shapeOk THEN InvalidDate
     ELSE IF ~(month \in 1..12 /\ hour <= 24 /\ minute <= 59 /\ second <= 59)
     THEN InvalidDate
     ELSE IF ~(dayOfMonth >= 1 /\ dayOfMonth <= monthLen) THEN InvalidDate
     ELSE IF hour = 24 /\ (minute # 0 \/ second # 0) THEN InvalidDate
     ELSE IF signed /\ s[1] = "-" /\ yAbs = 0 THEN InvalidDate
     ELSE LET time == MakeTime(hour, minute, second)
          IN TimeClip(DaysFromCivil(year, month, dayOfMonth) + (time \div MsPerDay),
                      time % MsPerDay)

(***************************************************************************)
(* Paths (node:path on POSIX) and the configuration of the script.         *)
(***************************************************************************)
\* path.resolve('./images'), the script run from /
rootDir == << "/", "i", "m", "a", "g", "e", "s" >>
baseUrl == << ".", "/", "i", "m", "a", "g", "e", "s" >>
allowed ==
  { << ".", "j", "p", "g" >>, << ".", "j", "p", "e", "g" >>, << ".", "p", "n", "g" >>,
    << ".", "g", "i", "f" >>, << ".", "w", "e", "b", "p" >>, << ".", "a", "v", "i", "f" >> }
\* the limit main passes to mapLimit
ConcurrencyLimit == 8

\* the last index of character c in s, 0 when there is none
LastIndexOf(s, c) ==
  IF \E i \in 1..Len(s) : s[i] = c
  THEN CHOOSE i \in 1..Len(s) : s[i] = c /\ \A j \in (i + 1)..Len(s) : s[j] # c
  ELSE 0

pathJoin(p, name) == p \o << "/" >> \o name
pathBasename(full) == SubSeq(full, LastIndexOf(full, "/") + 1, Len(full))
\* path.extname of a name without directories: from the last dot, unless it is the first character
pathExtname(name) ==
  LET i == LastIndexOf(name, ".")
  IN IF i <= 1 THEN << >> ELSE SubSeq(name, i, Len(name))
\* path.relative(from, to) for a path to below the directory from
pathRelative(from, to) == SubSeq(to, Len(from) + 2, Len(to))

\* rel.split(path.sep).join('/') leaves a POSIX path as it is
toPublicUrl(fullPath) == baseUrl \o << "/" >> \o pathRelative(rootDir, fullPath)

(***************************************************************************)
(* Regular expressions: a pattern is a sequence of items, k = "b" for \b,  *)
(* "c" for one captured character of set, "r" for one character of set    *)
(* outside the groups, "o" for an optional one ([..]?, greedy).            *)
(***************************************************************************)
ReB == [k |-> "b", set |-> {}]
ReD == [k |-> "c", set |-> DigitChars]
ReLit(c) == [k |-> "c", set |-> {c}]
ReReq(S) == [k |-> "r", set |-> S]
ReOpt(S) == [k |-> "o", set |-> S]

IsWordAt(s, p) == p >= 1 /\ p <= Len(s) /\ s[p] \in WordChars
\* \b before position p: exactly one of the characters around it is a word character
AtBoundary(s, p) == IsWordAt(s, p - 1) # IsWordAt(s, p)

NoMatch == [ok |-> FALSE, caps |-> << >>]

\* the match of items i.. of pat at position p of s, caps the characters captured so far
RECURSIVE MatchFrom(_, _, _, _, _)
MatchFrom(s, p, pat, i, caps) ==
  IF i > Len(pat) THEN [ok |-> TRUE, caps |-> caps]
  ELSE LET it == pat[i]
           here == p <= Len(s) /\ s[p] \in it.set
       IN CASE it.k = "b" ->
                 IF AtBoundary(s, p) THEN MatchFrom(s, p, pat, i + 1, caps) ELSE NoMatch
            [] it.k = "c" ->
                 IF here THEN MatchFrom(s, p + 1, pat, i + 1, Append(caps, s[p])) ELSE NoMatch
            [] it.k = "r" ->
                 IF here THEN MatchFrom(s, p + 1, pat, i + 1, caps) ELSE NoMatch
            [] it.k = "o" ->
                 LET taken == IF here THEN MatchFrom(s, p + 1, pat, i + 1, caps) ELSE NoMatch
                 IN IF taken.ok THEN taken ELSE MatchFrom(s, p, pat, i + 1, caps)

\* s.match(pattern): the leftmost match
RECURSIVE SearchFrom(_, _, _)
SearchFrom(s, p, pat) ==
  IF p > Len(s) + 1 THEN NoMatch
  ELSE LET m == MatchFrom(s, p, pat, 1, << >>)
       IN IF m.ok THEN m ELSE SearchFrom(s, p + 1, pat)

RegexMatch(s, pat) == SearchFrom(s, 1, pat)

DateSep == {"-", "_"}
TimeSep == {":", "_", "-"}
\* /\b(20\d{2})[-_]?(\d{2})[-_]?(\d{2})[T _-]?(\d{2})[:_-]?(\d{2})[:_-]?(\d{2})\b/
DateTimePattern ==
  << ReB, ReLit("2"), ReLit("0"), ReD, ReD, ReOpt(DateSep), ReD, ReD, ReOpt(DateSep),
     ReD, ReD, ReOpt({"T", " ", "_", "-"}), ReD, ReD, ReOpt(TimeSep), ReD, ReD,
     ReOpt(TimeSep), ReD, ReD, ReB >>
\* /\b(20\d{2})(\d{2})(\d{2})\b/
CompactDatePattern ==
  << ReB, ReLit("2"), ReLit("0"), ReD, ReD, ReD, ReD, ReD, ReD, ReB >>
\* /\b(20\d{2})[-_](\d{2})[-_](\d{2})\b/
SeparatedDatePattern ==
  << ReB, ReLit("2"), ReLit("0"), ReD, ReD, ReReq(DateSep), ReD, ReD, ReReq(DateSep),
     ReD, ReD, ReB >>

\* m.map(Number): group g of the captured digits, the year of four digits, the others of two
Group(caps, g) == IF g = 1 THEN NumOf(SubSeq(caps, 1, 4)) ELSE NumOf(SubSeq(caps, 2 * g + 1, 2 * g + 2))

\* isNaN(+dt) ? null : dt
NullIfNaN(dt) == IF IsNaNDate(dt) THEN Null ELSE dt

\* a date without a time of day is taken at midnight
NoonOf_Midnight(y, mo, d, tz) == NewLocalDate(y, mo - 1, d, 0, 0, 0, tz)

\* new Date(y, mo - 1, d, 12, 0, 0)
NoonOf(y, mo, d, tz) == NewLocalDate(y, mo - 1, d, 12, 0, 0, tz)

guessDateFromFilename(filename, tz) ==
  LET s == filename
      m1 == RegexMatch(s, DateTimePattern)
      m2 == RegexMatch(s, CompactDatePattern)
      m3 == RegexMatch(s, SeparatedDatePattern)
  IN IF m1.ok
     THEN NullIfNaN(NewLocalDate(Group(m1.caps, 1), Group(m1.caps, 2) - 1, Group(m1.caps, 3),
                                 Group(m1.caps, 4), Group(m1.caps, 5), Group(m1.caps, 6), tz))
     ELSE IF m2.ok
     THEN NullIfNaN(NoonOf(Group(m2.caps, 1), Group(m2.caps, 2), Group(m2.caps, 3), tz))
     ELSE IF m3.ok
     THEN NullIfNaN(NoonOf(Group(m3.caps, 1), Group(m3.caps, 2), Group(m3.caps, 3), tz))
     ELSE Null

(***************************************************************************)
(* The sources of a timestamp.  What a file holds is a record              *)
(*   [exif |-> [io, DateTimeOriginal, CreateDate, ModifyDate],             *)
(*    stat |-> [io, mtime]]                                                *)
(* io = "ok", or the failure of the read, of the parser, of fs.stat; an    *)
(* exif io of "noData" is exifr resolving to undefined.                    *)
(***************************************************************************)
\* a function that returned null, in the shape of its other results
NullResult == [date |-> Null, source |-> "null"]

\* toIsoUTC(date): the time shifted by the zone offset, printed and cut to the second.
\* toISOString throws a RangeError when the shifted time is no valid time value.
toIsoUTC(date, tz) ==
  LET shifted == AddMs(date, -(tz * 60000))
  IN IF shifted.nan THEN [throws |-> TRUE, str |-> << >>]
     ELSE [throws |-> FALSE, str |-> Slice(toISOString(shifted), 0, 19) \o << "Z" >>]

\* a || b
OrElse(a, b) == IF Truthy(a) THEN a ELSE b

exifDate(exif) ==
  IF exif.io \in {"readError", "parseError"} THEN NullResult
  ELSE LET dt == IF exif.io = "noData" THEN Undefined
                 ELSE OrElse(OrElse(exif.DateTimeOriginal, exif.CreateDate), exif.ModifyDate)
       IN IF dt.t = "date" /\ ~IsNaNDate(dt) THEN [date |-> dt, source |-> "exif"]
          ELSE NullResult

statMtime(stat) ==
  IF stat.io # "ok" THEN NullResult
  ELSE IF Truthy(stat.mtime) /\ ~IsNaNDate(stat.mtime)
  THEN [date |-> stat.mtime, source |-> "mtime"]
  ELSE NullResult

\* getTakenAt with the filename tried before the mtime
getTakenAt_FilenameFirst(fullPath, file, tz) ==
  LET ex == exifDate(file.exif)
      mt == statMtime(file.stat)
      fnGuess == guessDateFromFilename(pathBasename(fullPath), tz)
  IN IF ex # NullResult
     THEN [date |-> ex.date, source |-> ex.source, calls |-> << "exifDate" >>]
     ELSE IF Truthy(fnGuess)
     THEN [date |-> fnGuess, source |-> "filename",
           calls |-> << "exifDate", "guessDateFromFilename" >>]
     ELSE IF mt # NullResult
     THEN [date |-> mt.date, source |-> mt.source,
           calls |-> << "exifDate", "guessDateFromFilename", "statMtime" >>]
     ELSE [date |-> Null, source |-> "none",
           calls |-> << "exifDate", "guessDateFromFilename", "statMtime" >>]

\* getTakenAt without the test of fnGuess
getTakenAt_GuessUnchecked(fullPath, file, tz) ==
  LET ex == exifDate(file.exif)
      mt == statMtime(file.stat)
      fnGuess == guessDateFromFilename(pathBasename(fullPath), tz)
  IN IF ex # NullResult
     THEN [date |-> ex.date, source |-> ex.source, calls |-> << "exifDate" >>]
     ELSE IF mt # NullResult
     THEN [date |-> mt.date, source |-> mt.source, calls |-> << "exifDate", "statMtime" >>]
     ELSE [date |-> fnGuess, source |-> "filename",
           calls |-> << "exifDate", "statMtime", "guessDateFromFilename" >>]

\* getTakenAt(fullPath): what it returns, and the sources it called, in order
getTakenAt(fullPath, file, tz) ==
  LET ex == exifDate(file.exif)
      mt == statMtime(file.stat)
      fnGuess == guessDateFromFilename(pathBasename(fullPath), tz)
  IN IF ex # NullResult
     THEN [date |-> ex.date, source |-> ex.source, calls |-> << "exifDate" >>]
     ELSE IF mt # NullResult
     THEN [date |-> mt.date, source |-> mt.source, calls |-> << "exifDate", "statMtime" >>]
     ELSE IF Truthy(fnGuess)
     THEN [date |-> fnGuess, source |-> "filename",
           calls |-> << "exifDate", "statMtime", "guessDateFromFilename" >>]
     ELSE [date |-> Null, source |-> "none",
           calls |-> << "exifDate", "statMtime", "guessDateFromFilename" >>]

(***************************************************************************)
(* The values of the results array of mapLimit and the entries of the      *)
(* manifest.  takenAt is a string, or JsonNull for null.                   *)
(***************************************************************************)
JsonNull == << "null" >>
\* a slot of new Array(n) that was never assigned
EmptySlot == [t |-> "empty", src |-> << >>, takenAt |-> JsonNull, takenAtSource |-> ""]
NullSlot == [t |-> "null", src |-> << >>, takenAt |-> JsonNull, takenAtSource |-> ""]

\* the worker main passes to mapLimit: the promise it returns is fulfilled with an
\* entry, or rejected when toIsoUTC throws
worker(fullPath, file, tz) ==
  LET got == getTakenAt(fullPath, file, tz)
      iso == IF Truthy(got.date) THEN toIsoUTC(got.date, tz)
             ELSE [throws |-> FALSE, str |-> JsonNull]
  IN [rejected |-> iso.throws,
      calls |-> got.calls,
      taken |-> [date |-> got.date, source |-> got.source],
      value |-> IF iso.throws THEN NullSlot
                ELSE [t |-> "entry", src |-> toPublicUrl(fullPath),
                      takenAt |-> iso.str, takenAtSource |-> got.source]]

\* meta.filter(Boolean): null is dropped, a hole is skipped
RECURSIVE FilterBoolean(_)
FilterBoolean(meta) ==
  IF meta = << >> THEN << >>
  ELSE IF Head(meta).t = "entry" THEN << Head(meta) >> \o FilterBoolean(Tail(meta))
  ELSE FilterBoolean(Tail(meta))

\* the comparator with the dates compared oldest first (da - db)
compareEntries_OldestFirst(a, b) ==
  LET hasA == a.takenAt # JsonNull /\ a.takenAt # << >>
      hasB == b.takenAt # JsonNull /\ b.takenAt # << >>
      da == DateParse(a.takenAt)
      db == DateParse(b.takenAt)
  IN IF hasA /\ hasB
     THEN (IF da.nan \/ db.nan THEN 0 ELSE DateDiffSign(da, db))
     ELSE IF hasA THEN -1
     ELSE IF hasB THEN 1
     ELSE IF StrLess(a.src, b.src) THEN 1
     ELSE IF StrLess(b.src, a.src) THEN -1
     ELSE 0

\* the comparator with the tie-break ascending (a.src < b.src ? -1 : ...)
compareEntries_TieAscending(a, b) ==
  LET hasA == a.takenAt # JsonNull /\ a.takenAt # << >>
      hasB == b.takenAt # JsonNull /\ b.takenAt # << >>
      da == DateParse(a.takenAt)
      db == DateParse(b.takenAt)
  IN IF hasA /\ hasB
     THEN (IF da.nan \/ db.nan THEN 0 ELSE DateDiffSign(db, da))
     ELSE IF hasA THEN -1
     ELSE IF hasB THEN 1
     ELSE IF StrLess(a.src, b.src) THEN -1
     ELSE IF StrLess(b.src, a.src) THEN 1
     ELSE 0

\* the comparator of list.sort in main: its sign
compareEntries(a, b) ==
  LET hasA == a.takenAt # JsonNull /\ a.takenAt # << >>
      hasB == b.takenAt # JsonNull /\ b.takenAt # << >>
      da == DateParse(a.takenAt)
      db == DateParse(b.takenAt)
  IN IF hasA /\ hasB
     THEN (IF da.nan \/ db.nan THEN 0 ELSE DateDiffSign(db, da))
     ELSE IF hasA THEN -1
     ELSE IF hasB THEN 1
     ELSE IF StrLess(a.src, b.src) THEN 1
     ELSE IF StrLess(b.src, a.src) THEN -1
     ELSE 0

\* x put into the sorted sequence s behind every element that does not sort after it
RECURSIVE InsertEntry(_, _)
InsertEntry(s, x) ==
  IF s = << >> THEN << x >>
  ELSE IF compareEntries(Head(s), x) <= 0 THEN << Head(s) >> \o InsertEntry(Tail(s), x)
  ELSE << x >> \o s

\* list.sort(comparator): Array.prototype.sort is stable
RECURSIVE sortEntries(_)
sortEntries(list) ==
  IF list = << >> THEN << >>
  ELSE InsertEntry(sortEntries(SubSeq(list, 1, Len(list) - 1)), list[Len(list)])

\* listImageFiles without files.sort()
sortStrings_Missing(list) == list

RECURSIVE InsertString(_, _)
InsertString(s, x) ==
  IF s = << >> THEN << x >>
  ELSE IF ~StrLess(x, Head(s)) THEN << Head(s) >> \o InsertString(Tail(s), x)
  ELSE << x >> \o s

\* files.sort(): strings in ascending order of code units
RECURSIVE sortStrings(_)
sortStrings(list) ==
  IF list = << >> THEN << >>
  ELSE InsertString(sortStrings(SubSeq(list, 1, Len(list) - 1)), list[Len(list)])

(***************************************************************************)
(* The environment: the tree under ./images, what each file holds, the     *)
(* time zone of the process.                                               *)
(***************************************************************************)
SubDir == pathJoin(rootDir, << "d" >>)
\* a directory with the name of an image, below d
DeepDir == pathJoin(SubDir, << "e", ".", "j", "p", "g" >>)
DirPaths == {rootDir, SubDir, DeepDir}

\* the image files that may be present, by the directory they are in
ImageNames(dir) ==
  IF dir = rootDir THEN { << "a", ".", "j", "p", "g" >>, << "b", ".", "j", "p", "g" >>, << "c", ".", "P", "N", "G" >> }
  ELSE IF dir = SubDir THEN { }
  ELSE { << "2", "0", "2", "4", "0", "9", "0", "5", "_", "1", "4", "2", "2", "3", "1", ".", "j", "p", "g" >> }
\* the other entries, always present: files that are no images (n.txt, and .jpg, a
\* name that is all extension), and the directories
OtherEntries(dir) ==
  IF dir = rootDir
  THEN { [name |-> << "n", ".", "t", "x", "t" >>, isDir |-> FALSE], [name |-> << "d" >>, isDir |-> TRUE] }
  ELSE IF dir = SubDir
  THEN { [name |-> << ".", "j", "p", "g" >>, isDir |-> FALSE],
         [name |-> << "e", ".", "j", "p", "g" >>, isDir |-> TRUE] }
  ELSE { }
ImagePaths == UNION { { pathJoin(dir, n) : n \in ImageNames(dir) } : dir \in DirPaths }

\* getTimezoneOffset() of the process, in minutes: Central Europe, US East
TimezoneOffsets == { -60, 300 }

\* 2024-09-05T10:00:00.000Z
ExifTime == TimeClip(DaysFromCivil(2024, 9, 5), 10 * 3600000)
\* half a second later
MtimeTime == AddMs(ExifTime, 500)
OldTime == TimeClip(DaysFromCivil(2020, 1, 1), 0)
\* the largest time value
MaxTime == TimeClip(MaxTimeDays, 0)

NoExif(io) ==
  [io |-> io, DateTimeOriginal |-> Undefined, CreateDate |-> Undefined, ModifyDate |-> Undefined]
\* what a file may hold
FileProfiles ==
  { \* an EXIF capture time, and an older mtime
    [exif |-> [io |-> "ok", DateTimeOriginal |-> ExifTime, CreateDate |-> Undefined,
               ModifyDate |-> Undefined],
     stat |-> [io |-> "ok", mtime |-> OldTime]],
    \* no EXIF block, an mtime
    [exif |-> NoExif("noData"), stat |-> [io |-> "ok", mtime |-> MtimeTime]],
    \* unreadable, and deleted before fs.stat
    [exif |-> NoExif("readError"), stat |-> [io |-> "error", mtime |-> InvalidDate]],
    \* not an image the parser accepts, an mtime at the end of time
    [exif |-> NoExif("parseError"), stat |-> [io |-> "ok", mtime |-> MaxTime]] }

Limits == (1..MaxLimit) \cup {ConcurrencyLimit}

(***************************************************************************)
(* The state.                                                              *)
(***************************************************************************)
VARIABLES
  tz,        \* getTimezoneOffset() of the process
  limit,     \* the limit mapLimit is called with
  tree,      \* the entries of each directory under ./images
  pc,        \* where main is
  stack,     \* the calls of walk in progress: [dir, rest], rest the entries not yet looped over
  files,     \* the array files of listImageFiles, then of main
  idx,       \* mapLimit: the index of the next item to start
  active,    \* mapLimit: the workers started and not yet through finally
  results,   \* mapLimit: the array results
  pos,       \* per item: "queued", "running", then the handler of its chain that runs next
  settled,   \* per item: how its worker's promise settled
  disk,      \* per item: what its file held when the worker read it
  started,   \* per item: how many times the worker was invoked for it
  writes,    \* per slot of results: the handlers that assigned it, [handler, item]
  unlisted,  \* the directories fs.readdir failed to list in this run
  exit,      \* [exited, code]: whether the process has ended, and its exit status
  list,      \* main: the entries sorted, from the filter on
  outFile,   \* gallery.json: [written, entries]
  logged,    \* the counts printed by console.log
  fname,     \* a call of guessDateFromFilename on its own: the filename
  stamp,     \* the numbers the filename was written from
  guessed,   \* what the call returned
  gpc,       \* "input" before the call, "guessed" after it, "emitted" after the worker;
             \* "exifInput", "exifDone" around a call of exifDate; "off" in a run of main
  gfile,     \* a call of the worker on the file of that name: what the file holds
  emitted,   \* how the promise of that worker settled
  exifIn,    \* a call of exifDate on its own: what the file and the parser give
  exifOut    \* what the call returned

vars == << tz, limit, tree, pc, stack, files, idx, active, results, pos, settled, disk,
           started, writes, unlisted, exit, list, outFile, logged, fname, stamp, guessed, gpc,
           gfile, emitted, exifIn, exifOut >>

walkVars == << stack, files, unlisted >>
mapVars == << idx, active, results, pos, settled, disk, started, writes >>
envVars == << tz, limit, tree >>
guessVars == << fname, stamp, guessed, gpc, gfile, emitted, exifIn, exifOut >>

NoStamp == [year |-> 0, month |-> 0, day |-> 0, hasTime |-> FALSE,
            hour |-> 0, minute |-> 0, second |-> 0]
NoFile == [exif |-> NoExif("none"), stat |-> [io |-> "none", mtime |-> InvalidDate]]
Unsettled == [rejected |-> FALSE, calls |-> << >>, taken |-> NullResult, value |-> EmptySlot]

\* the process has not ended
Running == [exited |-> FALSE, code |-> 0]
Exited(code) == [exited |-> TRUE, code |-> code]

Init ==
  /\ tz \in TimezoneOffsets
  /\ limit \in Limits
  /\ \E present \in SUBSET ImagePaths :
       /\ Cardinality(present) <= MaxFiles
       /\ tree = [dir \in DirPaths |->
                    OtherEntries(dir) \cup
                    { [name |-> n, isDir |-> FALSE] :
                        n \in { m \in ImageNames(dir) : pathJoin(dir, m) \in present } }]
  /\ pc = "start"
  /\ stack = << >>
  /\ files = << >>
  /\ idx = 0
  /\ active = 0
  /\ results = << >>
  /\ pos = << >>
  /\ settled = << >>
  /\ disk = << >>
  /\ started = << >>
  /\ writes = << >>
  /\ unlisted = {}
  /\ exit = Running
  /\ list = << >>
  /\ outFile = [written |-> FALSE, entries |-> << >>]
  /\ logged = << >>
  /\ fname = << >>
  /\ stamp = NoStamp
  /\ guessed = Null
  /\ gpc = "off"
  /\ gfile = NoFile
  /\ emitted = Unsettled
  /\ exifIn = NoExif("none")
  /\ exifOut = NullResult

(***************************************************************************)
(* listImageFiles: the walk, one entry of a directory at a time.  The      *)
(* order in which readdir lists a directory is the order in which the loop *)
(* takes the entries from rest.                                            *)
(***************************************************************************)
Top == stack[Len(stack)]

\* main calls listImageFiles(rootDir), which calls walk(dir): the root is listed
ListStart ==
  /\ pc = "start"
  /\ pc' = "walk"
  /\ stack' = << [dir |-> rootDir, rest |-> tree[rootDir]] >>
  /\ UNCHANGED << envVars, guessVars, files, unlisted, mapVars, list, outFile, logged, exit >>

\* one turn of the loop of walk: a directory is listed and entered, a file with an
\* allowed extension is pushed
WalkEntry ==
  /\ pc = "walk"
  /\ stack # << >>
  /\ \E ent \in Top.rest :
       LET full == pathJoin(Top.dir, ent.name)
           ext == toLowerCase(pathExtname(ent.name))
           left == [stack EXCEPT ![Len(stack)].rest = @ \ {ent}]
       IN IF ent.isDir
          THEN /\ stack' = Append(left, [dir |-> full, rest |-> tree[full]])
               /\ files' = files
          ELSE /\ stack' = left
               /\ files' = IF ext \in allowed THEN Append(files, full) ELSE files
  /\ UNCHANGED << envVars, guessVars, pc, unlisted, mapVars, list, outFile, logged, exit >>

\* the loop of a walk is over: the call returns to the walk that made it
WalkReturn ==
  /\ pc = "walk"
  /\ stack # << >>
  /\ Top.rest = {}
  /\ stack' = SubSeq(stack, 1, Len(stack) - 1)
  /\ UNCHANGED << envVars, guessVars, pc, files, unlisted, mapVars, list, outFile, logged,
                  exit >>

\* a walk that catches the error of readdir and goes on with the next entry
afterReaddirError_Skipped(dir) == "walk"

\* no try is around await fs.readdir(p, ...) nor around await walk(full): the rejection
\* is thrown out of the walk of dir
afterReaddirError(dir) == "throwing"

\* fs.readdir rejects: of the root when listImageFiles starts, or of a directory the
\* loop of a walk enters
ReaddirFail ==
  \/ /\ pc = "start"
     /\ pc' = afterReaddirError(rootDir)
     /\ unlisted' = unlisted \cup {rootDir}
     /\ UNCHANGED stack
  \/ /\ pc = "walk"
     /\ stack # << >>
     /\ \E ent \in Top.rest :
          LET full == pathJoin(Top.dir, ent.name)
          IN /\ ent.isDir
             /\ pc' = afterReaddirError(full)
             /\ unlisted' = unlisted \cup {full}
             /\ stack' = [stack EXCEPT ![Len(stack)].rest = @ \ {ent}]
  /\ UNCHANGED << envVars, guessVars, files, mapVars, list, outFile, logged, exit >>

\* the error leaves a walk, at the await walk(full) of the walk that called it
Unwind ==
  /\ pc = "throwing"
  /\ stack # << >>
  /\ stack' = SubSeq(stack, 1, Len(stack) - 1)
  /\ UNCHANGED << envVars, guessVars, pc, files, unlisted, mapVars, list, outFile, logged,
                  exit >>

\* listImageFiles and main reject: main().catch(err => { console.error(err);
\* process.exit(1); }); the error goes to stderr, nothing to stdout
MainCatch ==
  /\ pc = "throwing"
  /\ stack = << >>
  /\ exit' = Exited(1)
  /\ pc' = "failed"
  /\ UNCHANGED << envVars, guessVars, walkVars, mapVars, list, outFile, logged >>

\* await walk(dir) is over: files.sort(); return files
ListSort ==
  /\ pc = "walk"
  /\ stack = << >>
  /\ files' = sortStrings(files)
  /\ pc' = "listed"
  /\ UNCHANGED << envVars, guessVars, stack, unlisted, mapVars, list, outFile, logged, exit >>

(***************************************************************************)
(* mapLimit.                                                               *)
(***************************************************************************)
\* next() with the loop condition active <= limit
nextStarts_OneMore(i, a, n, lim) ==
  IF a <= lim /\ i < n
  THEN (IF n - i < lim - a + 1 THEN n - i ELSE lim - a + 1)
  ELSE 0

\* next() with an if in the place of the while: one item at most per call
nextStarts_OneAtMost(i, a, n, lim) == IF a < lim /\ i < n THEN 1 ELSE 0

\* next(): how many items the loop starts, from idx = i and active = a, of n items
nextStarts(i, a, n, lim) ==
  IF a < lim /\ i < n
  THEN (IF n - i < lim - a THEN n - i ELSE lim - a)
  ELSE 0

\* a handler that stores at the first slot still empty, as a push would
slotOf_FirstEmpty(res, i) ==
  IF \E j \in 1..Len(res) : res[j].t = "empty"
  THEN CHOOSE j \in 1..Len(res) : res[j].t = "empty" /\ \A h \in 1..(j - 1) : res[h].t # "empty"
  ELSE i

\* the handlers of item i assign results[i]: i is the index their closure holds
slotOf(res, i) == i

\* a second handler that runs whatever the outcome, as one passed to finally
catchRuns_Always(s) == TRUE

\* .catch(handler): the handler runs if the promise of .then(...) is rejected, which it
\* is exactly if the worker's promise is (the handler of then does not throw)
catchRuns(s) == s.rejected

\* the test of finally without idx >= items.length
allDone_NoneActive(i, a, n) == a = 0

\* idx >= items.length && active === 0, with active already decremented
allDone(i, a, n) == i >= n /\ a = 0

\* main calls mapLimit(files, limit, worker): the array results, and the first next()
CallMapLimit ==
  /\ pc = "listed"
  /\ LET n == Len(files)
         k == nextStarts(0, 0, n, limit)
     IN /\ results' = [i \in 1..n |-> EmptySlot]
        /\ idx' = k
        /\ active' = k
        /\ pos' = [i \in 1..n |-> IF i <= k THEN "running" ELSE "queued"]
        /\ started' = [i \in 1..n |-> IF i <= k THEN 1 ELSE 0]
        /\ writes' = [i \in 1..n |-> << >>]
        /\ settled' = [i \in 1..n |-> Unsettled]
        /\ disk' = [i \in 1..n |-> NoFile]
  /\ pc' = "mapLimit"
  /\ UNCHANGED << envVars, guessVars, walkVars, list, outFile, logged, exit >>

\* the worker of item i reads the file and settles its promise
Settle(i) ==
  /\ pos[i] = "running"
  /\ \E f \in FileProfiles :
       /\ disk' = [disk EXCEPT ![i] = f]
       /\ settled' = [settled EXCEPT ![i] = worker(files[i], f, tz)]
  /\ pos' = [pos EXCEPT ![i] = "then"]
  /\ UNCHANGED << envVars, guessVars, pc, walkVars, idx, active, results, started, writes, list,
                  outFile, logged, exit >>

\* .then(res => { results[i] = res; }): runs on fulfilment, a rejection passes through
ThenJob(i) ==
  /\ pos[i] = "then"
  /\ IF settled[i].rejected
     THEN UNCHANGED << results, writes >>
     ELSE /\ results' = [results EXCEPT ![slotOf(results, i)] = settled[i].value]
          /\ writes' = [writes EXCEPT ![slotOf(results, i)] =
                          Append(@, [handler |-> "then", item |-> i])]
  /\ pos' = [pos EXCEPT ![i] = "catch"]
  /\ UNCHANGED << envVars, guessVars, pc, walkVars, idx, active, settled, disk, started, list,
                  outFile, logged, exit >>

\* .catch(() => { results[i] = null; }): runs on rejection
CatchJob(i) ==
  /\ pos[i] = "catch"
  /\ IF catchRuns(settled[i])
     THEN /\ results' = [results EXCEPT ![slotOf(results, i)] = NullSlot]
          /\ writes' = [writes EXCEPT ![slotOf(results, i)] =
                          Append(@, [handler |-> "catch", item |-> i])]
     ELSE UNCHANGED << results, writes >>
  /\ pos' = [pos EXCEPT ![i] = "finally"]
  /\ UNCHANGED << envVars, guessVars, pc, walkVars, idx, active, settled, disk, started, list,
                  outFile, logged, exit >>

\* .finally(() => { active--; (idx >= items.length && active === 0) ? resolve(results) : next(); })
FinallyJob(i) ==
  /\ pos[i] = "finally"
  /\ LET n == Len(files)
         a == active - 1
         k == nextStarts(idx, a, n, limit)
     IN IF allDone(idx, a, n)
        THEN /\ pc' = "resolved"
             /\ active' = a
             /\ pos' = [pos EXCEPT ![i] = "done"]
             /\ UNCHANGED << idx, started >>
        ELSE /\ pc' = pc
             /\ idx' = idx + k
             /\ active' = a + k
             /\ pos' = [j \in 1..n |-> IF j = i THEN "done"
                                       ELSE IF j > idx /\ j <= idx + k THEN "running"
                                       ELSE pos[j]]
             /\ started' = [j \in 1..n |-> IF j > idx /\ j <= idx + k THEN started[j] + 1
                                           ELSE started[j]]
  /\ UNCHANGED << envVars, guessVars, walkVars, results, settled, disk, writes, list, outFile,
                  logged, exit >>

(***************************************************************************)
(* main, from the promise of mapLimit on.                                  *)
(***************************************************************************)
\* meta.filter(Boolean), list.sort(...), and fs.writeFile is called
MainAssemble ==
  /\ pc = "resolved"
  /\ list' = sortEntries(FilterBoolean(results))
  /\ pc' = "writing"
  /\ UNCHANGED << envVars, guessVars, walkVars, mapVars, outFile, logged, exit >>

\* gallery.json is written, and main prints the count
WriteDone ==
  /\ pc = "writing"
  /\ outFile' = [written |-> TRUE, entries |-> list]
  /\ logged' = Append(logged, Len(list))
  /\ pc' = "done"
  /\ exit' = Exited(0)
  /\ UNCHANGED << envVars, guessVars, walkVars, mapVars, list >>

Next ==
  \/ ListStart
  \/ WalkEntry
  \/ WalkReturn
  \/ ListSort
  \/ ReaddirFail
  \/ Unwind
  \/ MainCatch
  \/ CallMapLimit
  \/ \E i \in 1..Len(pos) : Settle(i)
  \/ \E i \in 1..Len(pos) : ThenJob(i)
  \/ \E i \in 1..Len(pos) : CatchJob(i)
  \/ \E i \in 1..Len(pos) : FinallyJob(i)
  \/ MainAssemble
  \/ WriteDone

Spec == Init /\ [][Next]_vars

(***************************************************************************)
(* Properties of the run.                                                  *)
(***************************************************************************)
Items == 1..Len(pos)
Written == outFile.written
Manifest == outFile.entries
HasSettled(i) == pos[i] \in {"then", "catch", "finally", "done"}
InFlight == { i \in Items : pos[i] \in {"running", "then", "catch", "finally"} }
\* the places of the manifest that hold the entry of file i
PlacesOf(i) == { k \in 1..Len(Manifest) : Manifest[k].src = toPublicUrl(files[i]) }
HasTime(e) == e.takenAt # JsonNull
\* the instant an entry's takenAt denotes
TimeOf(e) == DateParse(e.takenAt)

\* C1: whatever the limit and the order of completion, the worker is invoked exactly
\* once per discovered file, and the manifest written holds exactly one entry per
\* discovered file: none is missing, none is there twice.
C1_EveryFileExactlyOnce ==
  /\ \A i \in Items : started[i] <= 1
  /\ Written =>
       /\ Len(Manifest) = Len(files)
       /\ \A i \in 1..Len(files) : started[i] = 1 /\ Cardinality(PlacesOf(i)) = 1

\* C2: a file whose resolution fails is not left out: the manifest holds exactly one
\* entry for it, with takenAt null and takenAtSource "none", and the entries of the
\* other files are what their workers returned.
C2_FailedFileKeepsNullEntry ==
  Written =>
    \A i \in Items :
      IF settled[i].rejected
      THEN /\ Cardinality(PlacesOf(i)) = 1
           /\ \A k \in PlacesOf(i) :
                Manifest[k].takenAt = JsonNull /\ Manifest[k].takenAtSource = "none"
      ELSE \E k \in PlacesOf(i) : Manifest[k] = settled[i].value

\* C3: in every state the counter active, which is the number of workers started and
\* not yet through their chain, is at most the limit, and so is the number of
\* resolutions that have not settled.
C3_ActiveAtMostLimit ==
  /\ active <= limit
  /\ active = Cardinality(InFlight)
  /\ Cardinality({ i \in Items : pos[i] = "running" }) <= limit

\* the limit is reached while items wait, after a completion admitted one of them
C3_Witness ==
  /\ pc = "mapLimit"
  /\ active = limit
  /\ idx < Len(files)
  /\ \E i \in Items : pos[i] = "done"

\* C4: the run always completes: as long as the manifest is not written and the count
\* not printed, and no listing of a directory has failed, the run has a step to take
\* (every started resolution can settle), for the empty list of files too.
C4_RunCompletes == (pc \notin { "done", "failed" }) => ENABLED Next

\* C5: getTakenAt takes the first source that yields a date, in the order EXIF, mtime,
\* filename, tags the result with it, and calls no source after the one that succeeded;
\* with no source it returns {date: null, source: "none"}.
C5_FirstSourceWins ==
  \A i \in Items :
    HasSettled(i) =>
      LET ex == exifDate(disk[i].exif)
          mt == statMtime(disk[i].stat)
          fn == guessDateFromFilename(pathBasename(files[i]), tz)
          got == settled[i].taken
          calls == settled[i].calls
      IN /\ ex # NullResult =>
              got = [date |-> ex.date, source |-> "exif"] /\ calls = << "exifDate" >>
         /\ (ex = NullResult /\ mt # NullResult) =>
              /\ got = [date |-> mt.date, source |-> "mtime"]
              /\ calls = << "exifDate", "statMtime" >>
         /\ (ex = NullResult /\ mt = NullResult /\ fn # Null) =>
              got = [date |-> fn, source |-> "filename"]
         /\ (ex = NullResult /\ mt = NullResult /\ fn = Null) =>
              got = [date |-> Null, source |-> "none"]
         /\ got.source = "filename" => (ex = NullResult /\ mt = NullResult)

\* the mtime wins over a filename that matches a date pattern
C5_Witness ==
  \E i \in Items :
    /\ HasSettled(i)
    /\ settled[i].taken.source = "mtime"
    /\ guessDateFromFilename(pathBasename(files[i]), tz) # Null

\* C8: in the manifest written, every entry with a takenAt precedes every entry
\* without, and the timestamps of the entries that have one never increase.
C8_NewestFirstNullsLast ==
  Written =>
    \A k \in 1..Len(Manifest) : \A l \in (k + 1)..Len(Manifest) :
      /\ HasTime(Manifest[l]) => HasTime(Manifest[k])
      /\ (HasTime(Manifest[k]) /\ HasTime(Manifest[l])) =>
           /\ ~TimeOf(Manifest[k]).nan /\ ~TimeOf(Manifest[l]).nan
           /\ DateDiffSign(TimeOf(Manifest[k]), TimeOf(Manifest[l])) >= 0

\* two entries with different timestamps, then one without
C8_Witness ==
  /\ Written
  /\ Len(Manifest) >= 3
  /\ HasTime(Manifest[1]) /\ HasTime(Manifest[2]) /\ ~HasTime(Manifest[3])
  /\ DateDiffSign(TimeOf(Manifest[1]), TimeOf(Manifest[2])) = 1

\* C9: the entries of the manifest without a takenAt are in strictly descending
\* order of their src.
C9_NullsBySrcDescending ==
  Written =>
    \A k \in 1..Len(Manifest) : \A l \in (k + 1)..Len(Manifest) :
      (~HasTime(Manifest[k]) /\ ~HasTime(Manifest[l])) =>
        StrLess(Manifest[l].src, Manifest[k].src)

\* b.jpg right before a.jpg, neither with a timestamp
C9_Witness ==
  /\ Written
  /\ \E k \in 1..(Len(Manifest) - 1) :
       /\ Manifest[k].src = baseUrl \o << "/" >> \o << "b", ".", "j", "p", "g" >>
       /\ Manifest[k + 1].src = baseUrl \o << "/" >> \o << "a", ".", "j", "p", "g" >>
       /\ ~HasTime(Manifest[k]) /\ ~HasTime(Manifest[k + 1])

\* what is under ./images: each file found, with what it holds
Content == { [path |-> files[i], file |-> disk[i]] : i \in Items }
\* the entries of the files whose worker does not fail
KeptEntries ==
  { worker(c.path, c.file, tz).value : c \in { d \in Content : ~worker(d.path, d.file, tz).rejected } }
\* the one order of the entries: newest first, equal timestamps by ascending src,
\* then the entries without a timestamp by descending src
Precedes(a, b) ==
  IF HasTime(a) /\ HasTime(b)
  THEN \/ DateDiffSign(TimeOf(a), TimeOf(b)) = 1
       \/ DateDiffSign(TimeOf(a), TimeOf(b)) = 0 /\ StrLess(a.src, b.src)
  ELSE IF HasTime(a) THEN TRUE
  ELSE IF HasTime(b) THEN FALSE
  ELSE StrLess(b.src, a.src)

\* C10: the manifest is a function of what is under ./images alone: whatever the order
\* in which the directories were listed and the resolutions completed, it is the
\* entries of the content in the one order Precedes, equal timestamps included.
C10_ManifestDeterminedByContent ==
  Written =>
    /\ Len(Manifest) = Cardinality(KeptEntries)
    /\ { Manifest[k] : k \in 1..Len(Manifest) } = KeptEntries
    /\ \A k \in 1..Len(Manifest) : \A l \in (k + 1)..Len(Manifest) :
         Precedes(Manifest[k], Manifest[l])

\* two entries of the manifest have the same timestamp
C10_Witness ==
  /\ Written
  /\ \E k \in 1..(Len(Manifest) - 1) :
       HasTime(Manifest[k]) /\ Manifest[k].takenAt = Manifest[k + 1].takenAt

\* what the worker applied to items[i] comes to, as a value of results: the entry it
\* returns, or null if it rejects
Outcome(i) ==
  LET w == worker(files[i], disk[i], tz)
  IN IF w.rejected THEN NullSlot ELSE w.value

\* the phases from the call of mapLimit on
MapPhases == { "mapLimit", "resolved", "writing", "done" }
Resolved == pc \in { "resolved", "writing", "done" }

\* the image files of the tree: the files put there as images
PresentImages ==
  UNION { { pathJoin(dir, e.name) : e \in { x \in tree[dir] : ~x.isDir /\ x.name \in ImageNames(dir) } }
          : dir \in DirPaths }

\* C18: what listImageFiles returns is the image files of the tree, at whatever depth
\* and below whatever directory name, each once and no other file, in ascending order
\* of the full path, whatever the order in which the directories were listed.
C18_ListedExactlySorted ==
  pc \in ({ "listed" } \cup MapPhases) =>
    /\ { files[i] : i \in 1..Len(files) } = PresentImages
    /\ Len(files) = Cardinality(PresentImages)
    /\ \A i \in 1..(Len(files) - 1) : StrLess(files[i], files[i + 1])
    /\ \A i \in 1..Len(files) :
         toLowerCase(pathExtname(pathBasename(files[i]))) \in allowed

\* the list holds a file with an extension in upper case and the file two directories
\* down, below the directory e.jpg
C18_Witness ==
  /\ pc = "listed"
  /\ \E i, j \in 1..Len(files) :
       /\ pathExtname(pathBasename(files[i])) = << ".", "P", "N", "G" >>
       /\ Len(files[j]) > Len(DeepDir)
       /\ SubSeq(files[j], 1, Len(DeepDir) + 1) = DeepDir \o << "/" >>

\* C11: a slot of results holds nothing until the worker of its own item has settled, and
\* from then on the outcome of the worker applied to that item (the entry of that file,
\* or null), in whatever order the workers complete; when the promise of mapLimit is
\* resolved every slot holds the outcome of its item.
C11_ResultsByIndex ==
  \A i \in Items :
    /\ results[i] # EmptySlot =>
         /\ HasSettled(i)
         /\ results[i] = Outcome(i)
         /\ results[i] # NullSlot => results[i].src = toPublicUrl(files[i])
    /\ Resolved => results[i] # EmptySlot

\* a later item has completed and stored its entry while an earlier one still runs
C11_Witness ==
  \E i, j \in Items :
    /\ i < j
    /\ pos[i] = "running"
    /\ pos[j] = "done"
    /\ results[j] = Outcome(j)
    /\ results[j] # NullSlot

\* C12: once the listing of a directory has failed, of the root or of a directory
\* below it, the error is on its way out of the walk or the process has ended, and
\* then with exit status 1; no resolution was started, nothing is in results, and
\* gallery.json is as it was before the run.
C12_ListingFailureAborts ==
  /\ unlisted # {} =>
       /\ pc \in { "throwing", "failed" }
       /\ pc = "throwing" => ENABLED Next
       /\ pc = "failed" <=> exit.exited
       /\ exit.exited => exit.code = 1
       /\ idx = 0 /\ pos = << >> /\ results = << >>
       /\ outFile = [written |-> FALSE, entries |-> << >>]
  /\ (exit.exited /\ exit.code # 0) => unlisted # {}

\* the listing of the directory below d failed after an image was found: the process
\* has ended with status 1, nothing was started or written
C12_Witness ==
  /\ pc = "failed"
  /\ unlisted = {DeepDir}
  /\ files # << >>
  /\ exit = Exited(1)
  /\ ~Written

\* C19: in every entry a worker returned, and so in every entry of the manifest written,
\* takenAt is null if and only if takenAtSource is "none"; the other sources are exif,
\* mtime and filename, and come with a timestamp.
C19_NullIffNone ==
  /\ \A i \in Items :
       results[i].t = "entry" =>
         /\ results[i].takenAt = JsonNull <=> results[i].takenAtSource = "none"
         /\ results[i].takenAtSource \in { "exif", "mtime", "filename", "none" }
  /\ Written =>
       \A k \in 1..Len(Manifest) :
         Manifest[k].takenAt = JsonNull <=> Manifest[k].takenAtSource = "none"

\* the manifest written holds an entry without a timestamp and one with the timestamp
\* of its filename
C19_Witness ==
  /\ Written
  /\ \E k, m \in 1..Len(Manifest) :
       /\ Manifest[k].takenAt = JsonNull /\ Manifest[k].takenAtSource = "none"
       /\ Manifest[m].takenAt # JsonNull /\ Manifest[m].takenAtSource = "filename"

\* C15: every slot of results is assigned at most once in a run, exactly once by the
\* time the chain of its item is through, and the one assignment is made by a handler
\* of the worker started for that index: the handler of then if it fulfils, the
\* handler of catch if it rejects.
C15_SlotWrittenOnce ==
  \A s \in 1..Len(writes) :
    /\ Len(writes[s]) <= 1
    /\ pos[s] \in { "finally", "done" } => Len(writes[s]) = 1
    /\ Len(writes[s]) = 0 <=> results[s] = EmptySlot
    /\ \A k \in 1..Len(writes[s]) :
         /\ writes[s][k].item = s
         /\ writes[s][k].handler = (IF settled[s].rejected THEN "catch" ELSE "then")

\* the promise is resolved, one slot was assigned by a handler of then and another by a
\* handler of catch
C15_Witness ==
  /\ Resolved
  /\ \E s, u \in 1..Len(writes) :
       /\ writes[s] = << [handler |-> "then", item |-> s] >>
       /\ writes[u] = << [handler |-> "catch", item |-> u] >>

\* C16: the phases follow one another: a resolution is started only when the walk is
\* over and the list of files sorted, and fs.writeFile is called, and the file written,
\* only when every file's resolution was started, has settled and is through its chain,
\* and every slot of results is assigned.
C16_PhasesInOrder ==
  /\ (\E i \in Items : pos[i] # "queued") =>
       /\ pc \in MapPhases
       /\ stack = << >>
       /\ files = sortStrings(files)
  /\ (pc \in { "writing", "done" } \/ Written) =>
       /\ Len(pos) = Len(files)
       /\ \A i \in Items : started[i] >= 1 /\ pos[i] = "done" /\ results[i] # EmptySlot

\* the file is written, of more files than the limit lets run at once
C16_Witness ==
  /\ Written
  /\ limit < Len(files)
  /\ \A i \in Items : pos[i] = "done"

\* C17: the items are started in the order of the input, the started ones being at any
\* time the first idx of them, and from the call of mapLimit on, whenever a handler has
\* returned, either active is the limit or every item has been started.
C17_WorkConserving ==
  /\ \A i \in Items : (pos[i] = "queued" <=> i > idx) /\ (started[i] = 0 <=> i > idx)
  /\ pc \in MapPhases => (active = limit \/ idx = Len(files))
  /\ idx <= Len(files) \/ pc \notin MapPhases

\* the third item took the place of the first, which is through, under a limit of two
C17_Witness ==
  /\ pc = "mapLimit"
  /\ limit = MaxLimit
  /\ idx = limit + 1
  /\ active = limit
  /\ pos[1] = "done"
  /\ pos[idx] = "running"

(***************************************************************************)
(* guessDateFromFilename on its own, on filenames written from a prefix, a *)
(* date and, or not, a time of day, valid or not.                          *)
(***************************************************************************)
Prefixes == { << >>, << "I", "M", "G", "_" >>, << "x", "-" >> }
StampYears == { 2024 }
StampMonths == { 2, 9, 13 }
StampDays == { 5, 30, 40 }
StampHours == { 14, 25 }
StampMinutes == { 22 }
StampSeconds == { 31, 61 }
\* between year, month and day
DateSeparators == { << >>, << "-" >>, << "_" >> }
\* between the date and the time
JoinSeparators == { << "_" >>, << "T" >> }
\* between hour, minute and second
TimeSeparators == { << >>, << ":" >> }
Extension == << ".", "j", "p", "g" >>

DateText(y, mo, d, sep) == PadNum(y, 4) \o sep \o PadNum(mo, 2) \o sep \o PadNum(d, 2)
TimeText(hh, mi, ss, sep) == PadNum(hh, 2) \o sep \o PadNum(mi, 2) \o sep \o PadNum(ss, 2)

InitGuess ==
  /\ tz \in TimezoneOffsets
  /\ limit = ConcurrencyLimit
  /\ tree = [dir \in DirPaths |-> OtherEntries(dir)]
  /\ pc = "off"
  /\ stack = << >>
  /\ files = << >>
  /\ idx = 0
  /\ active = 0
  /\ results = << >>
  /\ pos = << >>
  /\ settled = << >>
  /\ disk = << >>
  /\ started = << >>
  /\ writes = << >>
  /\ unlisted = {}
  /\ exit = Running
  /\ list = << >>
  /\ outFile = [written |-> FALSE, entries |-> << >>]
  /\ logged = << >>
  /\ \E pre \in Prefixes, y \in StampYears, mo \in StampMonths, d \in StampDays,
        ds \in DateSeparators :
       \/ /\ fname = pre \o DateText(y, mo, d, ds) \o Extension
          /\ stamp = [year |-> y, month |-> mo, day |-> d, hasTime |-> FALSE,
                      hour |-> 0, minute |-> 0, second |-> 0]
       \/ \E hh \in StampHours, mi \in StampMinutes, ss \in StampSeconds,
             js \in JoinSeparators, ts \in TimeSeparators :
            /\ fname = pre \o DateText(y, mo, d, ds) \o js \o TimeText(hh, mi, ss, ts)
                          \o Extension
            /\ stamp = [year |-> y, month |-> mo, day |-> d, hasTime |-> TRUE,
                        hour |-> hh, minute |-> mi, second |-> ss]
  /\ guessed = Null
  /\ gpc = "input"
  /\ gfile = NoFile
  /\ emitted = Unsettled
  /\ exifIn = NoExif("none")
  /\ exifOut = NullResult

\* the call guessDateFromFilename(fname)
Guess ==
  /\ gpc = "input"
  /\ guessed' = guessDateFromFilename(fname, tz)
  /\ gpc' = "guessed"
  /\ UNCHANGED << envVars, pc, walkVars, mapVars, list, outFile, logged, exit, fname, stamp,
                  gfile, emitted, exifIn, exifOut >>

\* the worker of main on a file of that name in ./images, whatever the file holds
Emit ==
  /\ gpc = "guessed"
  /\ \E f \in FileProfiles :
       /\ gfile' = f
       /\ emitted' = worker(pathJoin(rootDir, fname), f, tz)
  /\ gpc' = "emitted"
  /\ UNCHANGED << envVars, pc, walkVars, mapVars, list, outFile, logged, exit, fname, stamp,
                  guessed, exifIn, exifOut >>

NextGuess ==
  \/ Guess
  \/ Emit

GuessSpec == InitGuess /\ [][NextGuess]_vars

\* the days of a month
DaysInMonth(y, mo) ==
  DaysFromCivil(IF mo = 12 THEN y + 1 ELSE y, IF mo = 12 THEN 1 ELSE mo + 1, 1)
    - DaysFromCivil(y, mo, 1)
\* the numbers of a stamp are a date, and a time of day, of the calendar
ValidStamp(st) ==
  /\ st.month \in 1..12
  /\ st.day >= 1 /\ st.day <= DaysInMonth(st.year, st.month)
  /\ st.hour <= 23 /\ st.minute <= 59 /\ st.second <= 59

\* the numbers of a stamp are a date of the calendar
ValidDate(st) ==
  /\ st.month \in 1..12
  /\ st.day >= 1 /\ st.day <= DaysInMonth(st.year, st.month)

\* the filename matches one of the two patterns of a date alone, and not the pattern of
\* a date and time
DateOnlyMatch(s) ==
  /\ ~RegexMatch(s, DateTimePattern).ok
  /\ RegexMatch(s, CompactDatePattern).ok \/ RegexMatch(s, SeparatedDatePattern).ok

C6_DateTimeOfTheName ==
  (gpc \in { "guessed", "emitted" } /\ stamp.hasTime /\ ValidStamp(stamp)) =>
    /\ guessed.t = "date" /\ ~guessed.nan
    /\ LocalFields(guessed, tz) =
         [year |-> stamp.year, month |-> stamp.month, day |-> stamp.day,
          hour |-> stamp.hour, minute |-> stamp.minute, second |-> stamp.second]

\* C7: for a filename whose numbers are no date or time of the calendar (month 13,
\* day 40, ...), guessDateFromFilename returns null.
C7_InvalidDateIsNull ==
  (gpc \in { "guessed", "emitted" } /\ ~ValidStamp(stamp)) => guessed = Null

(***************************************************************************)
(* exifDate on its own, on what the parser may give for the three fields:  *)
(* nothing, a string it could not revive, an invalid Date, a Date.         *)
(***************************************************************************)
ExifValues == { Undefined, StringValue, InvalidDate, ExifTime, MtimeTime }
ExifInputs ==
  { [io |-> "ok", DateTimeOriginal |-> a, CreateDate |-> b, ModifyDate |-> c] :
      a \in ExifValues, b \in ExifValues, c \in ExifValues }
    \cup { NoExif(io) : io \in { "noData", "readError", "parseError" } }

InitExif ==
  /\ tz \in TimezoneOffsets
  /\ limit = ConcurrencyLimit
  /\ tree = [dir \in DirPaths |-> OtherEntries(dir)]
  /\ pc = "off"
  /\ stack = << >>
  /\ files = << >>
  /\ idx = 0
  /\ active = 0
  /\ results = << >>
  /\ pos = << >>
  /\ settled = << >>
  /\ disk = << >>
  /\ started = << >>
  /\ writes = << >>
  /\ unlisted = {}
  /\ exit = Running
  /\ list = << >>
  /\ outFile = [written |-> FALSE, entries |-> << >>]
  /\ logged = << >>
  /\ fname = << >>
  /\ stamp = NoStamp
  /\ guessed = Null
  /\ gpc = "exifInput"
  /\ gfile = NoFile
  /\ emitted = Unsettled
  /\ exifIn \in ExifInputs
  /\ exifOut = NullResult

\* the call exifDate(fullPath)
CallExifDate ==
  /\ gpc = "exifInput"
  /\ exifOut' = exifDate(exifIn)
  /\ gpc' = "exifDone"
  /\ UNCHANGED << envVars, pc, walkVars, mapVars, list, outFile, logged, exit, fname, stamp,
                  guessed, gfile, emitted, exifIn >>

NextExif == CallExifDate

ExifSpec == InitExif /\ [][NextExif]_vars

ValidExifDate(v) == v.t = "date" /\ ~v.nan
\* the first of the three fields, in the order of the fallback, that is a valid date
FirstValidField(e) ==
  IF ValidExifDate(e.DateTimeOriginal) THEN e.DateTimeOriginal
  ELSE IF ValidExifDate(e.CreateDate) THEN e.CreateDate
  ELSE IF ValidExifDate(e.ModifyDate) THEN e.ModifyDate
  ELSE Null

\* C14: exifDate returns, with the source exif, the first of DateTimeOriginal,
\* CreateDate and ModifyDate that is a valid date, also when a field before it is
\* present and is no valid date (a string, an invalid Date); it returns null only if
\* none of the three is a valid date.
C14_FirstValidFieldWins ==
  (gpc = "exifDone" /\ exifIn.io = "ok") =>
    exifOut = (IF FirstValidField(exifIn) = Null THEN NullResult
               ELSE [date |-> FirstValidField(exifIn), source |-> "exif"])

=============================================================================
